---- MODULE Spec2Model ----
(***************************************************************************)
(* Model of the debounced input pin of src/src/lib.rs: a wrapper around a  *)
(* fallible raw InputPin that publishes a debounced level and is advanced  *)
(* by update(), once per sampling tick.                                    *)
(***************************************************************************)
EXTENDS Integers, Sequences, FiniteSets, TLC

(* ------------------------------------------------------------------ *)
(* Bounds                                                              *)
(* ------------------------------------------------------------------ *)

\* Largest of the small thresholds handed to set_poll_amounts.
MaxPoll == 3

\* The tick history counter saturates here (above DefaultMaxCounts + 1).
TickCap == 12

(* ------------------------------------------------------------------ *)
(* Program constants and types                                         *)
(* ------------------------------------------------------------------ *)

\* counter and max_counts are i8.
I8Min == -128
I8Max == 127

\* max_counts as set by every constructor.
DefaultMaxCounts == 10

\* Arithmetic on i8 wraps (release build).
WrapI8(n) == ((n - I8Min) % (I8Max - I8Min + 1)) + I8Min

\* Result<_, Error>: the value is kept as a string.
Ok(v) == [ok |-> TRUE, val |-> v]
Err == [ok |-> FALSE, val |-> "Error"]
OkBool(b) == Ok(IF b THEN "true" ELSE "false")

\* The unit structs that select the polarity at compile time.
Activeness == {"ActiveHigh", "ActiveLow"}

\* enum DebounceState
DebounceState == {"Debouncing", "Reset", "Active"}

(* ------------------------------------------------------------------ *)
(* The raw source: an InputPin whose two queries may fail              *)
(* ------------------------------------------------------------------ *)

\* MockInputPin::is_high, failing when the source is faulty.
pin_is_high(p) == IF p.fail THEN Err ELSE OkBool(p.state)

\* MockInputPin::is_low, failing when the source is faulty.
pin_is_low(p) == IF p.fail THEN Err ELSE OkBool(~p.state)

\* One entry of the log of raw queries a call makes.
Query(q, r) == [query |-> q, result |-> r]

(* ------------------------------------------------------------------ *)
(* DebouncedInputPin: constructors                                     *)
(* ------------------------------------------------------------------ *)

\* DebouncedInputPin::new(pin, _activeness)
new(a) ==
    [activeness |-> a, counter |-> 0, max_counts |-> DefaultMaxCounts, state |-> FALSE]

\* DebouncedInputPin::active_high(pin)
active_high ==
    [activeness |-> "ActiveHigh", counter |-> 0, max_counts |-> DefaultMaxCounts,
     state |-> FALSE]

\* DebouncedInputPin::active_low(pin)
active_low ==
    [activeness |-> "ActiveLow", counter |-> 0, max_counts |-> DefaultMaxCounts,
     state |-> TRUE]

(* ------------------------------------------------------------------ *)
(* DebouncedInputPin: methods.  Each yields the struct after the call, *)
(* the value returned and the raw queries made.                        *)
(* ------------------------------------------------------------------ *)

Effect(s, r, q) == [self |-> s, ret |-> r, reads |-> q]

\* set_poll_amounts that also restarts the debouncing.
set_poll_amounts_restarts(s, p, m) ==
    Effect([s EXCEPT !.max_counts = m, !.counter = 0, !.state = FALSE], Ok("unit"), <<>>)

\* DebouncedInputPin::set_poll_amounts(&mut self, max_counts)
set_poll_amounts(s, p, m) ==
    Effect([s EXCEPT !.max_counts = m], Ok("unit"), <<>>)

\* is_high as a pass-through to the wrapped pin (not debounced).
is_high_raw(s, p) == Effect(s, pin_is_high(p), <<Query("is_high", pin_is_high(p))>>)

\* InputPin::is_high for DebouncedInputPin
is_high(s, p) == Effect(s, OkBool(s.state), <<>>)

\* InputPin::is_low for DebouncedInputPin
is_low(s, p) == Effect(s, OkBool(~s.state), <<>>)

\* update for ActiveHigh comparing with <= instead of <.
update_ActiveHigh_le(s, p) ==
    LET r == pin_is_low(p)
        q == <<Query("is_low", r)>>
    IN  IF ~r.ok THEN Effect(s, r, q)
        ELSE IF r.val = "true"
        THEN Effect([s EXCEPT !.counter = 0, !.state = FALSE], Ok("Reset"), q)
        ELSE IF s.counter <= s.max_counts
        THEN Effect([s EXCEPT !.counter = WrapI8(s.counter + 1)], Ok("Debouncing"), q)
        ELSE Effect([s EXCEPT !.state = TRUE], Ok("Active"), q)

\* update for ActiveHigh that clears the counter but forgets the state on reset.
update_ActiveHigh_keeps_state(s, p) ==
    LET r == pin_is_low(p)
        q == <<Query("is_low", r)>>
    IN  IF ~r.ok THEN Effect(s, r, q)
        ELSE IF r.val = "true"
        THEN Effect([s EXCEPT !.counter = 0], Ok("Reset"), q)
        ELSE IF s.counter < s.max_counts
        THEN Effect([s EXCEPT !.counter = WrapI8(s.counter + 1)], Ok("Debouncing"), q)
        ELSE Effect([s EXCEPT !.state = TRUE], Ok("Active"), q)

\* update for ActiveHigh that keeps counting once the threshold is reached.
update_ActiveHigh_overcount(s, p) ==
    LET r == pin_is_low(p)
        q == <<Query("is_low", r)>>
    IN  IF ~r.ok THEN Effect(s, r, q)
        ELSE IF r.val = "true"
        THEN Effect([s EXCEPT !.counter = 0, !.state = FALSE], Ok("Reset"), q)
        ELSE IF s.counter < s.max_counts
        THEN Effect([s EXCEPT !.counter = WrapI8(s.counter + 1)], Ok("Debouncing"), q)
        ELSE Effect([s EXCEPT !.counter = WrapI8(s.counter + 1), !.state = TRUE],
                    Ok("Active"), q)

\* update for ActiveHigh that confirms only when the counter equals the threshold.
update_ActiveHigh_ne(s, p) ==
    LET r == pin_is_low(p)
        q == <<Query("is_low", r)>>
    IN  IF ~r.ok THEN Effect(s, r, q)
        ELSE IF r.val = "true"
        THEN Effect([s EXCEPT !.counter = 0, !.state = FALSE], Ok("Reset"), q)
        ELSE IF s.counter # s.max_counts
        THEN Effect([s EXCEPT !.counter = WrapI8(s.counter + 1)], Ok("Debouncing"), q)
        ELSE Effect([s EXCEPT !.state = TRUE], Ok("Active"), q)

\* update for ActiveHigh that asks the raw pin a second time before counting.
update_ActiveHigh_two_reads(s, p) ==
    LET r == pin_is_low(p)
        h == pin_is_high(p)
        q == <<Query("is_low", r)>>
        qq == <<Query("is_low", r), Query("is_high", h)>>
    IN  IF ~r.ok THEN Effect(s, r, q)
        ELSE IF r.val = "true"
        THEN Effect([s EXCEPT !.counter = 0, !.state = FALSE], Ok("Reset"), q)
        ELSE IF ~h.ok THEN Effect(s, h, qq)
        ELSE IF h.val = "true" /\ s.counter < s.max_counts
        THEN Effect([s EXCEPT !.counter = WrapI8(s.counter + 1)], Ok("Debouncing"), qq)
        ELSE Effect([s EXCEPT !.state = TRUE], Ok("Active"), qq)

\* Debounce::update for DebouncedInputPin<T, ActiveHigh>
update_ActiveHigh(s, p) ==
    LET r == pin_is_low(p)
        q == <<Query("is_low", r)>>
    IN  IF ~r.ok THEN Effect(s, r, q)
        ELSE IF r.val = "true"
        THEN Effect([s EXCEPT !.counter = 0, !.state = FALSE], Ok("Reset"), q)
        ELSE IF s.counter < s.max_counts
        THEN Effect([s EXCEPT !.counter = WrapI8(s.counter + 1)], Ok("Debouncing"), q)
        ELSE Effect([s EXCEPT !.state = TRUE], Ok("Active"), q)

\* update for ActiveLow comparing with <= instead of <.
update_ActiveLow_le(s, p) ==
    LET r == pin_is_high(p)
        q == <<Query("is_high", r)>>
    IN  IF ~r.ok THEN Effect(s, r, q)
        ELSE IF r.val = "true"
        THEN Effect([s EXCEPT !.counter = 0, !.state = TRUE], Ok("Reset"), q)
        ELSE IF s.counter <= s.max_counts
        THEN Effect([s EXCEPT !.counter = WrapI8(s.counter + 1)], Ok("Debouncing"), q)
        ELSE Effect([s EXCEPT !.state = FALSE], Ok("Active"), q)

\* update for ActiveLow that clears the run before it looks at the read.
update_ActiveLow_clears_on_error(s, p) ==
    LET r == pin_is_high(p)
        q == <<Query("is_high", r)>>
    IN  IF ~r.ok THEN Effect([s EXCEPT !.counter = 0], r, q)
        ELSE IF r.val = "true"
        THEN Effect([s EXCEPT !.counter = 0, !.state = TRUE], Ok("Reset"), q)
        ELSE IF s.counter < s.max_counts
        THEN Effect([s EXCEPT !.counter = WrapI8(s.counter + 1)], Ok("Debouncing"), q)
        ELSE Effect([s EXCEPT !.state = FALSE], Ok("Active"), q)

\* update for ActiveLow that publishes on the tick that fills the counter.
update_ActiveLow_early(s, p) ==
    LET r == pin_is_high(p)
        q == <<Query("is_high", r)>>
    IN  IF ~r.ok THEN Effect(s, r, q)
        ELSE IF r.val = "true"
        THEN Effect([s EXCEPT !.counter = 0, !.state = TRUE], Ok("Reset"), q)
        ELSE IF s.counter + 1 < s.max_counts
        THEN Effect([s EXCEPT !.counter = WrapI8(s.counter + 1)], Ok("Debouncing"), q)
        ELSE Effect([s EXCEPT !.counter = s.max_counts, !.state = FALSE], Ok("Active"), q)

\* Debounce::update for DebouncedInputPin<T, ActiveLow>
update_ActiveLow(s, p) ==
    LET r == pin_is_high(p)
        q == <<Query("is_high", r)>>
    IN  IF ~r.ok THEN Effect(s, r, q)
        ELSE IF r.val = "true"
        THEN Effect([s EXCEPT !.counter = 0, !.state = TRUE], Ok("Reset"), q)
        ELSE IF s.counter < s.max_counts
        THEN Effect([s EXCEPT !.counter = WrapI8(s.counter + 1)], Ok("Debouncing"), q)
        ELSE Effect([s EXCEPT !.state = FALSE], Ok("Active"), q)

\* update(), dispatched on the activeness type parameter.
update(s, p) ==
    IF s.activeness = "ActiveHigh" THEN update_ActiveHigh(s, p) ELSE update_ActiveLow(s, p)

\* ActiveTrait::is_active for DebouncedInputPin<T, ActiveHigh>
is_active_ActiveHigh(s, p) == is_high(s, p)

\* is_active for ActiveLow that forgets the polarity.
is_active_ActiveLow_as_high(s, p) == is_high(s, p)

\* ActiveTrait::is_active for DebouncedInputPin<T, ActiveLow>
is_active_ActiveLow(s, p) == is_low(s, p)

\* is_active(), dispatched on the activeness type parameter.
is_active(s, p) ==
    IF s.activeness = "ActiveHigh" THEN is_active_ActiveHigh(s, p)
    ELSE is_active_ActiveLow(s, p)

(* ------------------------------------------------------------------ *)
(* State                                                               *)
(* ------------------------------------------------------------------ *)

VARIABLES
    pin,          \* the wrapped raw pin: its level and whether its reads fail
    self,         \* the DebouncedInputPin
    ctor,         \* the constructor that built self
    op,           \* the last call made
    ret,          \* what the last call returned
    reads,        \* the raw queries the last call made, with their results
    old,          \* self at entry of the last call
    ticks,        \* number of update() calls since construction (saturating)
    only_active,  \* every update() since construction read the raw source active
    streak,       \* successful raw reads of update() that were active, since the last
                  \* not-active read (saturating; failed reads are skipped)
    debouncings,  \* update() calls that returned Debouncing, since the last
                  \* not-active read (saturating)
    mirror,       \* a second pin, built with active_low, fed the complemented level
    mirror_ret,   \* what the last call on mirror returned
    timer,        \* examples/debounce_rtfm.rs: the poll timer is running
    exti_pending, \* the EXTI0 interrupt (rising edge of the button) is pending
    action_pending, \* button_action has been spawned and has not run yet
    led_state,    \* the led_state resource
    halted,       \* an unwrap() panicked (panic_halt)
    deb_polls,    \* polls in a row that returned Debouncing, the last poll included
    deb_before,   \* deb_polls at entry of the last poll
    spawned,      \* the last poll spawned button_action
    spawns        \* spawns of button_action since the timer was last armed

\* The resources of the RTFM example and the history kept about its polls.
rtfm_vars ==
    <<timer, exti_pending, action_pending, led_state, halted, deb_polls, deb_before,
      spawned, spawns>>

vars ==
    <<pin, self, ctor, op, ret, reads, old, ticks, only_active, streak, debouncings,
      mirror, mirror_ret, rtfm_vars>>

\* Thresholds passed to set_poll_amounts at any time.
PollAmounts == {I8Min, -1, DefaultMaxCounts} \cup (0 .. MaxPoll)

\* Thresholds chosen once, before the first tick.
FixedPollAmounts == {-1, DefaultMaxCounts} \cup (0 .. MaxPoll)

RawPins == [state : BOOLEAN, fail : BOOLEAN]

\* The raw pin with the complemented level and the same failure.
Complement(p) == [p EXCEPT !.state = ~p.state]

\* The level the polarity publishes at rest, and when active.
Rest(a) == (a = "ActiveLow")
ActiveLevel(a) == (a = "ActiveHigh")

\* The raw source reads active / not active for polarity a.
ReadsActive(a, p) == ~p.fail /\ (p.state = (a = "ActiveHigh"))
ReadsInactive(a, p) == ~p.fail /\ (p.state # (a = "ActiveHigh"))

Min(a, b) == IF a < b THEN a ELSE b

Init ==
    /\ pin \in RawPins
    /\ \E c \in {"new", "active_high", "active_low"} :
         /\ ctor = c
         /\ self \in CASE c = "new" -> {new(a) : a \in Activeness}
                       [] c = "active_high" -> {active_high}
                       [] c = "active_low" -> {active_low}
    /\ op = "none"
    /\ ret = Ok("unit")
    /\ reads = <<>>
    /\ old = self
    /\ ticks = 0
    /\ only_active = TRUE
    /\ streak = 0
    /\ debouncings = 0
    /\ mirror = active_low
    /\ mirror_ret = Ok("unit")
    /\ timer = FALSE
    /\ exti_pending = FALSE
    /\ action_pending = FALSE
    /\ led_state = FALSE
    /\ halted = FALSE
    /\ deb_polls = 0
    /\ deb_before = 0
    /\ spawned = FALSE
    /\ spawns = 0

\* A call of one of the read-only or configuring methods.
Call(name, e) ==
    /\ op' = name
    /\ old' = self
    /\ self' = e.self
    /\ ret' = e.ret
    /\ reads' = e.reads
    /\ UNCHANGED <<pin, ctor, ticks, only_active, streak, debouncings, mirror, mirror_ret>>
    /\ UNCHANGED rtfm_vars

\* A sampling tick on self: the caller invokes update().
Tick ==
    LET e == update(self, pin) IN
    /\ op' = "update"
    /\ old' = self
    /\ self' = e.self
    /\ ret' = e.ret
    /\ reads' = e.reads
    /\ ticks' = Min(ticks + 1, TickCap)
    /\ only_active' = (only_active /\ ReadsActive(self.activeness, pin))
    /\ streak' = IF pin.fail THEN streak
                 ELSE IF ReadsActive(self.activeness, pin) THEN Min(streak + 1, TickCap)
                 ELSE 0
    /\ debouncings' = IF pin.fail THEN debouncings
                      ELSE IF ~ReadsActive(self.activeness, pin) THEN 0
                      ELSE IF e.ret = Ok("Debouncing") THEN Min(debouncings + 1, TickCap)
                      ELSE debouncings
    /\ UNCHANGED <<pin, ctor>>

Update == Tick /\ UNCHANGED <<mirror, mirror_ret>> /\ UNCHANGED rtfm_vars

IsHigh == Call("is_high", is_high(self, pin))

IsLow == Call("is_low", is_low(self, pin))

IsActive == Call("is_active", is_active(self, pin))

SetPollAmounts == \E m \in PollAmounts : Call("set_poll_amounts", set_poll_amounts(self, pin, m))

\* The threshold is chosen before the first tick and never changed afterwards.
SetPollAmountsFirst ==
    /\ ticks = 0
    /\ \E m \in FixedPollAmounts : Call("set_poll_amounts", set_poll_amounts(self, pin, m))

\* The outside world drives the raw pin (tests: pin.pin.state = ...).
SetPin ==
    /\ \E p \in RawPins : pin' = p
    /\ pin' # pin
    /\ op' = "pin"
    /\ UNCHANGED <<self, ctor, ret, reads, old, ticks, only_active, streak, debouncings,
                   mirror, mirror_ret>>
    /\ UNCHANGED rtfm_vars

Next == Update \/ IsHigh \/ IsLow \/ IsActive \/ SetPollAmounts \/ SetPin

Spec == Init /\ [][Next]_vars

NextFixed == Update \/ IsHigh \/ IsLow \/ IsActive \/ SetPollAmountsFirst \/ SetPin

SpecFixed == Init /\ [][NextFixed]_vars

(* ------------------------------------------------------------------ *)
(* Two pins side by side: self built with active_high, mirror built    *)
(* with active_low and wrapping a raw pin of the complemented level.   *)
(* ------------------------------------------------------------------ *)

InitMirror == Init /\ ctor = "active_high"

\* The same tick on both pins.
UpdateBoth ==
    LET e == update(mirror, Complement(pin)) IN
    /\ Tick
    /\ mirror' = e.self
    /\ mirror_ret' = e.ret
    /\ UNCHANGED rtfm_vars

\* The same threshold on both pins.
SetPollAmountsBoth ==
    \E m \in PollAmounts :
        /\ op' = "set_poll_amounts"
        /\ old' = self
        /\ self' = set_poll_amounts(self, pin, m).self
        /\ ret' = set_poll_amounts(self, pin, m).ret
        /\ reads' = set_poll_amounts(self, pin, m).reads
        /\ mirror' = set_poll_amounts(mirror, Complement(pin), m).self
        /\ mirror_ret' = set_poll_amounts(mirror, Complement(pin), m).ret
        /\ UNCHANGED <<pin, ctor, ticks, only_active, streak, debouncings>>
        /\ UNCHANGED rtfm_vars

NextMirror == UpdateBoth \/ SetPollAmountsBoth \/ SetPin

SpecMirror == InitMirror /\ [][NextMirror]_vars

(* ------------------------------------------------------------------ *)
(* The whole i8 range: thresholds at both ends of i8, so that the       *)
(* counter can be driven up to the largest i8.                         *)
(* ------------------------------------------------------------------ *)

\* Thresholds at the ends of the i8 range and around zero.
I8PollAmounts == {I8Min, -1, 0, I8Max - 1, I8Max}

SetPollAmountsI8 ==
    \E m \in I8PollAmounts : Call("set_poll_amounts", set_poll_amounts(self, pin, m))

NextI8 == Update \/ SetPollAmountsI8 \/ SetPin

SpecI8 == Init /\ [][NextI8]_vars

(* ------------------------------------------------------------------ *)
(* examples/debounce_rtfm.rs: the button's rising edge arms a timer,    *)
(* every timer tick polls update(), and the timer is stopped on Reset   *)
(* and on Active.  The tasks have the same priority, so each runs to    *)
(* completion.                                                         *)
(* ------------------------------------------------------------------ *)

\* init: user_button = DebouncedInputPin::new(pa0, ActiveHigh), timer stopped.
\* Reading the GPIO pin cannot fail.
InitRtfm ==
    /\ Init
    /\ ctor = "new"
    /\ self = new("ActiveHigh")
    /\ pin = [state |-> FALSE, fail |-> FALSE]

\* The button (or its bouncing contact) changes the level of PA0; a rising
\* edge sets the EXTI0 pending bit (rtsr1.tr0).
ButtonEdge ==
    /\ pin' = [pin EXCEPT !.state = ~pin.state]
    /\ exti_pending' = (exti_pending \/ pin'.state)
    /\ op' = "pin"
    /\ UNCHANGED <<self, ctor, ret, reads, old, ticks, only_active, streak, debouncings,
                   mirror, mirror_ret>>
    /\ UNCHANGED <<timer, action_pending, led_state, halted, deb_polls, deb_before,
                   spawned, spawns>>

\* task button_interrupt (binds = EXTI0)
button_interrupt ==
    /\ ~halted
    /\ exti_pending
    /\ timer' = TRUE
    /\ exti_pending' = FALSE
    /\ spawns' = 0
    /\ op' = "button_interrupt"
    /\ UNCHANGED <<pin, self, ctor, ret, reads, old, ticks, only_active, streak,
                   debouncings, mirror, mirror_ret>>
    /\ UNCHANGED <<action_pending, led_state, halted, deb_polls, deb_before, spawned>>

\* task button_poll (binds = TIM1_UP_TIM16)
button_poll ==
    LET e == update(self, pin) IN
    /\ ~halted
    /\ timer
    /\ Tick
    /\ deb_before' = deb_polls
    /\ deb_polls' = IF e.ret = Ok("Debouncing") THEN Min(deb_polls + 1, TickCap) ELSE 0
    /\ IF ~e.ret.ok
         THEN \* update().unwrap()
              /\ halted' = TRUE
              /\ spawned' = FALSE
              /\ UNCHANGED <<timer, action_pending, spawns>>
         ELSE IF e.ret = Ok("Active")
         THEN \* timer.stop(); spawn.button_action().unwrap()
              /\ timer' = FALSE
              /\ halted' = action_pending
              /\ action_pending' = TRUE
              /\ spawned' = ~action_pending
              /\ spawns' = IF action_pending THEN spawns ELSE Min(spawns + 1, TickCap)
         ELSE IF e.ret = Ok("Reset")
         THEN /\ timer' = FALSE
              /\ spawned' = FALSE
              /\ UNCHANGED <<halted, action_pending, spawns>>
         ELSE /\ spawned' = FALSE
              /\ UNCHANGED <<timer, halted, action_pending, spawns>>
    /\ UNCHANGED <<mirror, mirror_ret, exti_pending, led_state>>

\* task button_action
button_action ==
    /\ ~halted
    /\ action_pending
    /\ action_pending' = FALSE
    /\ led_state' = ~led_state
    /\ op' = "button_action"
    /\ UNCHANGED <<pin, self, ctor, ret, reads, old, ticks, only_active, streak,
                   debouncings, mirror, mirror_ret>>
    /\ UNCHANGED <<timer, exti_pending, halted, deb_polls, deb_before, spawned, spawns>>

NextRtfm == ButtonEdge \/ button_interrupt \/ button_poll \/ button_action

SpecRtfm == InitRtfm /\ [][NextRtfm]_vars

(* ------------------------------------------------------------------ *)
(* Properties                                                          *)
(* ------------------------------------------------------------------ *)

\* What is_high / is_low / is_active of self return right now.
PublishedHigh == is_high(self, pin).ret
PublishedLow == is_low(self, pin).ret
PublishedActive == is_active(self, pin).ret

\* The last call was update() and its raw read was active / not active / failed.
\* (SetPin records op = "pin", so pin is still the pin that call read.)
TickedActive == op = "update" /\ ReadsActive(self.activeness, pin)
TickedInactive == op = "update" /\ ReadsInactive(self.activeness, pin)
TickedFailing == op = "update" /\ pin.fail

\* self was built with active_high or active_low, and every tick so far read active.
FreshActiveRun == ctor \in {"active_high", "active_low"} /\ self.max_counts >= 1 /\ only_active

\* C1: from a pin built with active_high or active_low and a fixed threshold
\* T >= 1, T+1 consecutive active ticks return Debouncing T times and then
\* Active; the published level is at rest through the first T ticks and
\* active after tick T+1.  (SpecFixed)
C1_ActiveOnTickAfterThreshold ==
    FreshActiveRun =>
        /\ ticks <= self.max_counts =>
              /\ self.state = Rest(self.activeness)
              /\ PublishedActive = OkBool(FALSE)
              /\ (op = "update" => ret = Ok("Debouncing") /\ self.counter = ticks)
        /\ (ticks = self.max_counts + 1 /\ ticks < TickCap) =>
              /\ self.state = ActiveLevel(self.activeness)
              /\ PublishedActive = OkBool(TRUE)
              /\ (op = "update" => ret = Ok("Active"))

C1_Witness ==
    /\ FreshActiveRun
    /\ ctor = "active_low"
    /\ self.max_counts = DefaultMaxCounts
    /\ ticks = DefaultMaxCounts + 1
    /\ op = "update"
    /\ ret = Ok("Active")
    /\ PublishedLow = OkBool(TRUE)

\* C2: a tick whose raw read is not active returns Reset, clears the counter
\* and publishes the rest level, whatever counter and level were held before.
C2_InactiveReadResets ==
    TickedInactive =>
        /\ ret = Ok("Reset")
        /\ self.counter = 0
        /\ self.state = Rest(self.activeness)
        /\ (self.activeness = "ActiveHigh" => PublishedLow = OkBool(TRUE))
        /\ (self.activeness = "ActiveLow" => PublishedHigh = OkBool(TRUE))

C2_Witness ==
    /\ TickedInactive
    /\ old.counter = DefaultMaxCounts
    /\ old.state = ActiveLevel(old.activeness)
    /\ self.activeness = "ActiveHigh"
    /\ ret = Ok("Reset")
    /\ self.counter = 0

\* C3: a tick whose raw read fails returns the error of that read, leaves
\* counter, published level and threshold as they were, and reads the raw
\* source once only.
C3_FailedReadChangesNothing ==
    TickedFailing =>
        /\ ret = Err
        /\ Len(reads) = 1
        /\ ret = reads[1].result
        /\ self = old

C3_Witness ==
    /\ TickedFailing
    /\ ret = Err
    /\ old.counter > 0
    /\ old.counter < old.max_counts
    /\ self.activeness = "ActiveLow"

\* C4: with the threshold fixed at a positive value, 0 <= counter <= threshold
\* after every update.  (SpecFixed)
C4_CounterWithinThreshold ==
    self.max_counts > 0 => (0 <= self.counter /\ self.counter <= self.max_counts)

C4_Witness ==
    /\ op = "update"
    /\ self.max_counts = DefaultMaxCounts
    /\ self.counter = self.max_counts
    /\ old.counter = self.max_counts
    /\ self.activeness = "ActiveHigh"

\* C5: every constructor yields counter = 0, threshold = 10 and the published
\* level at the rest value of the chosen polarity.
C5_ConstructorsStartAtRest ==
    op = "none" =>
        /\ self.counter = 0
        /\ self.max_counts = 10
        /\ self.state = Rest(self.activeness)
        /\ PublishedHigh = OkBool(self.activeness = "ActiveLow")

\* C6: a tick with an active read on a saturated pin (counter = threshold)
\* returns Active, publishes the active level and leaves the counter at the
\* threshold; the same tick again gives the same state.
C6_SaturatedStaysActive ==
    (TickedActive /\ old.counter = old.max_counts) =>
        /\ ret = Ok("Active")
        /\ self.state = ActiveLevel(self.activeness)
        /\ PublishedActive = OkBool(TRUE)
        /\ self.counter = old.counter
        /\ self.max_counts = old.max_counts
        /\ update(self, pin).self = self
        /\ update(self, pin).ret = Ok("Active")

C6_Witness ==
    /\ TickedActive
    /\ old.counter = old.max_counts
    /\ old.max_counts = DefaultMaxCounts
    /\ old.state = ActiveLevel(old.activeness)
    /\ ret = Ok("Active")
    /\ self.activeness = "ActiveHigh"

\* C7: is_high returns Ok(state) and is_low Ok(not state) in every state, also
\* while the raw source fails; they make no raw query and change nothing.
C7_ObserversArePure ==
    /\ PublishedHigh = OkBool(self.state)
    /\ PublishedLow = OkBool(~self.state)
    /\ is_high(self, pin).reads = <<>> /\ is_high(self, pin).self = self
    /\ is_low(self, pin).reads = <<>> /\ is_low(self, pin).self = self
    /\ op = "is_high" => (ret = OkBool(self.state) /\ reads = <<>> /\ self = old)
    /\ op = "is_low" => (ret = OkBool(~self.state) /\ reads = <<>> /\ self = old)

C7_Witness ==
    /\ op = "is_high"
    /\ pin.fail
    /\ ret = OkBool(TRUE)
    /\ self.activeness = "ActiveHigh"
    /\ self.counter = self.max_counts

\* C8: fed complemented levels (and the same failures and thresholds), an
\* active_high pin and an active_low pin return the same classification on
\* every tick, hold equal counters and complementary published levels.
\* (SpecMirror)
C8_PolaritiesMirror ==
    /\ mirror.counter = self.counter
    /\ mirror.max_counts = self.max_counts
    /\ mirror.state = ~self.state
    /\ is_high(mirror, Complement(pin)).ret = PublishedLow
    /\ is_low(mirror, Complement(pin)).ret = PublishedHigh
    /\ mirror_ret = ret

C8_Witness ==
    /\ op = "update"
    /\ ret = Ok("Active")
    /\ mirror_ret = Ok("Active")
    /\ self.state = TRUE
    /\ mirror.state = FALSE
    /\ mirror.counter = DefaultMaxCounts

\* C9: after an update that returned Reset is_active() is false, after one
\* that returned Active it is true; is_active() is is_high() for ActiveHigh
\* and is_low() for ActiveLow.
C9_ClassificationAgreesWithLevel ==
    /\ (op = "update" /\ ret = Ok("Reset")) => PublishedActive = OkBool(FALSE)
    /\ (op = "update" /\ ret = Ok("Active")) => PublishedActive = OkBool(TRUE)
    /\ self.activeness = "ActiveHigh" => PublishedActive = OkBool(self.state)
    /\ self.activeness = "ActiveLow" => PublishedActive = OkBool(~self.state)
    /\ op = "is_active" => ret = OkBool(self.state = ActiveLevel(self.activeness))

C9_Witness ==
    /\ op = "update"
    /\ ret = Ok("Active")
    /\ self.activeness = "ActiveLow"
    /\ ctor = "new"
    /\ PublishedLow = OkBool(TRUE)

\* C10: with the threshold set to 0, every tick with an active read returns
\* Active at once, never Debouncing, and publishes the active level, the first
\* tick after construction included; the counter stays 0 and
\* set_poll_amounts(0) raises no error.  (SpecFixed)
C10_ZeroThresholdIsImmediate ==
    self.max_counts = 0 =>
        /\ TickedActive =>
              /\ ret = Ok("Active")
              /\ self.state = ActiveLevel(self.activeness)
              /\ PublishedActive = OkBool(TRUE)
        /\ op = "update" => ret # Ok("Debouncing")
        /\ self.counter = 0
        /\ op = "set_poll_amounts" => ret = Ok("unit")

C10_Witness ==
    /\ self.max_counts = 0
    /\ TickedActive
    /\ ticks = 1
    /\ ret = Ok("Active")
    /\ old.state = Rest(old.activeness)

\* C11: once set_poll_amounts has put the threshold at or below the counter
\* of a pin that is still debouncing, the next tick with an active read
\* returns Active and publishes the active level at once, with the counter
\* left as it was.
C11_LoweredThresholdConfirmsAtOnce ==
    (TickedActive /\ old.counter >= old.max_counts) =>
        /\ ret = Ok("Active")
        /\ ret # Ok("Debouncing")
        /\ self.state = ActiveLevel(self.activeness)
        /\ PublishedActive = OkBool(TRUE)
        /\ self.counter = old.counter

\* The threshold is below a counter that was counted up under a higher one,
\* and the level was still at rest when the tick came.
C11_Witness ==
    /\ TickedActive
    /\ old.max_counts >= 1
    /\ old.counter > old.max_counts
    /\ old.state = Rest(old.activeness)
    /\ ret = Ok("Active")
    /\ self.counter = old.counter
    /\ self.activeness = "ActiveHigh"

\* C12 (as stated): 0 <= counter <= threshold in every reachable state, under
\* any interleaving of update and set_poll_amounts.
C12_CounterWithinThresholdAlways ==
    0 <= self.counter /\ self.counter <= self.max_counts

\* C12 (amended): 0 <= counter in every reachable state; counter <= threshold
\* holds after construction, every update that starts with it ends with it,
\* and no update raises the counter above the threshold.  Only
\* set_poll_amounts, by a value below the counter, puts the counter above
\* the threshold.
C12_CounterBoundKeptByUpdate ==
    /\ 0 <= self.counter
    /\ op = "none" => self.counter <= self.max_counts
    /\ (op = "update" /\ old.counter <= old.max_counts) => self.counter <= self.max_counts
    /\ (op = "update" /\ self.counter > old.counter) => self.counter <= self.max_counts
    /\ (op = "set_poll_amounts" /\ self.counter > self.max_counts /\
            old.counter <= old.max_counts) => self.max_counts < old.counter

\* A threshold set in the middle of a run is reached and not passed.
C12_Witness ==
    /\ op = "update"
    /\ ticks > 1
    /\ self.max_counts = MaxPoll
    /\ old.max_counts = MaxPoll
    /\ old.counter = MaxPoll
    /\ self.counter = MaxPoll
    /\ ret = Ok("Active")

\* C13: a tick with an active read while counter < threshold adds exactly 1 to
\* the counter, returns Debouncing and leaves the published level and the
\* threshold as they were.
C13_DebouncingTickOnlyCounts ==
    (TickedActive /\ old.counter < old.max_counts) =>
        /\ ret = Ok("Debouncing")
        /\ self.counter = old.counter + 1
        /\ self.state = old.state
        /\ self.max_counts = old.max_counts
        /\ self.activeness = old.activeness
        /\ PublishedHigh = is_high(old, pin).ret

\* The first tick of a fresh ActiveHigh pin: 0 -> 1 and is_high() still false.
C13_Witness ==
    /\ TickedActive
    /\ ticks = 1
    /\ ctor = "active_high"
    /\ old.counter = 0
    /\ self.counter = 1
    /\ ret = Ok("Debouncing")
    /\ PublishedHigh = OkBool(FALSE)

\* C14: the published level changes only in an update whose raw read
\* succeeded; set_poll_amounts changes the threshold and nothing else and
\* makes no raw read; is_high, is_low and is_active change nothing.
C14_LevelChangesOnlyInUpdate ==
    [][ /\ (self'.state # self.state) => (op' = "update" /\ ret'.ok)
        /\ (op' = "set_poll_amounts") =>
              /\ self' = [self EXCEPT !.max_counts = self'.max_counts]
              /\ reads' = <<>>
        /\ (op' \in {"is_high", "is_low", "is_active", "set_poll_amounts"}) =>
              /\ is_high(self', pin').ret = is_high(self, pin).ret
              /\ is_low(self', pin').ret = is_low(self, pin).ret
        /\ (op' \in {"is_high", "is_low", "is_active"}) => (self' = self /\ reads' = <<>>)
      ]_vars

\* set_poll_amounts was called on a pin that counts and publishes active.
C14_Witness ==
    /\ op = "set_poll_amounts"
    /\ self.max_counts # old.max_counts
    /\ self.counter > 0
    /\ self.counter = old.counter
    /\ self.state = ActiveLevel(self.activeness)
    /\ self.state = old.state
    /\ self.activeness = "ActiveHigh"

\* C15: whenever update returns Debouncing, the level published right after it
\* is not the active one (is_active() is false), for every constructor and
\* every sequence of update and set_poll_amounts.
C15_DebouncingMeansNotYetActive ==
    (op = "update" /\ ret = Ok("Debouncing")) => PublishedActive = OkBool(FALSE)

\* A pin that was built at rest (new with ActiveLow is not), with a threshold
\* of at least 1, all of whose ticks so far read active.
CountingFromRest ==
    /\ (ctor = "new" => self.activeness = "ActiveHigh")
    /\ self.max_counts >= 1
    /\ only_active

\* C16 (as stated): counting from 0, the published level is already active
\* after the threshold-th consecutive active tick, one tick before update
\* first returns Active on tick threshold + 1.
C16_LevelActiveAfterThresholdTicks ==
    CountingFromRest =>
        /\ ticks = self.max_counts => self.state = ActiveLevel(self.activeness)
        /\ (ticks = self.max_counts + 1 /\ ticks < TickCap /\ op = "update") =>
              ret = Ok("Active")

\* C16 (amended): counting from 0, the threshold-th consecutive active tick
\* fills the counter and still returns Debouncing with the level at rest;
\* tick threshold + 1 is the first to return Active and the one that makes
\* the published level active.
C16_LevelActiveWithFirstActive ==
    CountingFromRest =>
        /\ ticks = self.max_counts =>
              /\ self.counter = self.max_counts
              /\ self.state = Rest(self.activeness)
              /\ (op = "update" => ret = Ok("Debouncing"))
        /\ (ticks = self.max_counts + 1 /\ ticks < TickCap) =>
              /\ self.counter = self.max_counts
              /\ self.state = ActiveLevel(self.activeness)
              /\ (op = "update" =>
                     (ret = Ok("Active") /\ old.state = Rest(old.activeness)))

\* The tenth active tick of a fresh ActiveHigh pin: counter full, level at rest.
C16_Witness ==
    /\ CountingFromRest
    /\ self.activeness = "ActiveHigh"
    /\ self.max_counts = DefaultMaxCounts
    /\ ticks = DefaultMaxCounts
    /\ op = "update"
    /\ ret = Ok("Debouncing")
    /\ self.counter = DefaultMaxCounts
    /\ PublishedHigh = OkBool(FALSE)

\* C17: every update makes exactly one raw query, is_low for ActiveHigh and
\* is_high for ActiveLow, and the result of that query alone decides between
\* error, Reset and the active branches.
C17_OneRawQueryPerUpdate ==
    op = "update" =>
        /\ Len(reads) = 1
        /\ reads[1].query = (IF self.activeness = "ActiveHigh" THEN "is_low" ELSE "is_high")
        /\ reads[1].result = (IF self.activeness = "ActiveHigh" THEN pin_is_low(pin)
                              ELSE pin_is_high(pin))
        /\ (reads[1].result = Err) = (ret = Err)
        /\ (reads[1].result = OkBool(TRUE)) = (ret = Ok("Reset"))
        /\ (reads[1].result = OkBool(FALSE)) = (ret \in {Ok("Debouncing"), Ok("Active")})

C17_Witness ==
    /\ op = "update"
    /\ self.activeness = "ActiveHigh"
    /\ reads = <<Query("is_low", OkBool(FALSE))>>
    /\ ret = Ok("Debouncing")

\* A pin built with active_high or active_low, whose threshold T >= 0 was
\* chosen before the first tick.
BuiltAtRestFixed == ctor \in {"active_high", "active_low"} /\ self.max_counts >= 0

\* C18: with a fixed threshold T >= 0, update returns Active, and the level
\* goes from rest to active, only on a tick whose read is active and whose T
\* preceding successful reads were all active; since the last not-active read
\* at least T ticks have returned Debouncing.  Failed reads neither count nor
\* break the run.  (SpecFixed)
C18_ActiveOnlyAfterFullRun ==
    BuiltAtRestFixed =>
        /\ (op = "update" /\ ret = Ok("Active")) =>
              /\ ReadsActive(self.activeness, pin)
              /\ streak >= Min(self.max_counts + 1, TickCap)
              /\ debouncings >= self.max_counts
        /\ (self.state = ActiveLevel(self.activeness)) =>
              /\ streak >= Min(self.max_counts + 1, TickCap)
              /\ debouncings >= self.max_counts
        /\ (op = "update" /\ old.state = Rest(old.activeness) /\
                self.state = ActiveLevel(self.activeness)) => ret = Ok("Active")
        /\ (op = "update" /\ pin.fail) => (self.counter = old.counter /\ ret = Err)

\* Active is returned after a run that a failed read has interrupted (the
\* tick count exceeds the run) and that followed a not-active read.
C18_Witness ==
    /\ BuiltAtRestFixed
    /\ self.max_counts = MaxPoll
    /\ op = "update"
    /\ ret = Ok("Active")
    /\ old.state = Rest(old.activeness)
    /\ streak = MaxPoll + 1
    /\ debouncings = MaxPoll
    /\ ~only_active
    /\ ticks > MaxPoll + 2

\* C19: with a fixed threshold T >= 0, from any reachable state, the tick that
\* completes T + 1 active reads in a row returns Active at the latest, every
\* further active tick returns Active, and the level stays active until the
\* first not-active read; a not-active read returns Reset on that very tick.
\* (SpecFixed)
C19_ActiveWithinThresholdPlusOne ==
    (self.max_counts >= 0 /\ self.max_counts + 1 <= TickCap) =>
        /\ (TickedActive /\ streak >= self.max_counts + 1) => ret = Ok("Active")
        /\ (streak >= self.max_counts + 1) =>
              /\ self.state = ActiveLevel(self.activeness)
              /\ PublishedActive = OkBool(TRUE)
        /\ TickedInactive => (ret = Ok("Reset") /\ streak = 0)
        /\ (TickedActive /\ ret = Ok("Debouncing")) => streak <= self.max_counts

\* Tick T + 1 of an active run that began after an earlier reset.
C19_Witness ==
    /\ self.max_counts = DefaultMaxCounts
    /\ TickedActive
    /\ streak = DefaultMaxCounts + 1
    /\ ~only_active
    /\ ret = Ok("Active")
    /\ old.state = Rest(old.activeness)
    /\ self.state = ActiveLevel(self.activeness)

\* C20: for every threshold an i8 can hold, negative ones and 127 included,
\* and every sequence of update and set_poll_amounts, the i8 counter never
\* wraps: it grows by one only from a value strictly below the threshold, and
\* stays within 0..127.  (SpecI8)
C20_CounterNeverOverflows ==
    /\ 0 <= self.counter
    /\ self.counter <= I8Max
    /\ (op = "update" /\ self.counter # old.counter) =>
          \/ self.counter = 0
          \/ /\ old.counter < old.max_counts
             /\ old.counter < I8Max
             /\ self.counter = old.counter + 1
    /\ (op = "update" /\ ret = Ok("Debouncing")) => self.counter = old.counter + 1
    /\ (op = "set_poll_amounts") => self.counter = old.counter

\* The counter has been counted up to 127 under the threshold 127, and the
\* next active tick confirms instead of counting on.
C20_Witness ==
    /\ TickedActive
    /\ self.max_counts = I8Max
    /\ old.counter = I8Max
    /\ self.counter = I8Max
    /\ ret = Ok("Active")

\* C21: in the RTFM example every spawn of button_action, for the first press
\* and for every later one, comes right after threshold polls in a row that
\* returned Debouncing, and the timer being armed once leads to at most one
\* spawn.  (SpecRtfm)
C21_SpawnOnlyAfterFullDebounce ==
    /\ spawned => deb_before >= self.max_counts
    /\ spawns <= 1

====
